---- MODULE Spec2Model ----
(***************************************************************************)
(* Journal automation of the portfolio site.                               *)
(*                                                                         *)
(*   scripts/watch-journal.js  the debounced watcher: chokidar events and  *)
(*                             a 30-minute idle timer around a blocking    *)
(*                             execSync("pnpm sync-journal")               *)
(*   scripts/sync-journal.js   the sync pipeline: frontmatter guard,       *)
(*                             mirror, git status / add / commit / push,   *)
(*                             one-shot or every 30 minutes (--watch)      *)
(*                                                                         *)
(*   src/components/Navbar.tsx the now-playing endpoint: token exchange,   *)
(*                             then the current and the most recent track  *)
(*                                                                         *)
(* The specifications share the module: WatcherSpec runs the watcher's     *)
(* event loop, Spec and IntervalSpec run one sync-journal.js process,      *)
(* NormalizeSpec calls ensureFrontmatter on its own, NowPlayingSpec serves *)
(* one request.  Each leaves the other programs' variables untouched.      *)
(***************************************************************************)
EXTENDS Integers, Sequences, FiniteSets, TLC

VARIABLES
    \* ---- watch-journal.js ----
    now,            \* wall clock of the watcher, in minutes
    timers,         \* timers armed in the event loop: [id, at, reason]
    syncTimeout,    \* the module variable: 0 (null) or a timer handle
    syncInFlight,   \* the module variable
    lastReason,     \* the module variable
    wpc,            \* the JS thread: "idle" (event loop free) or "execSync" (blocked)
    wstate,         \* the process: "running", "closing" (watcher.close() pending), "exited"
    fsQueue,        \* file changes seen by the OS and not yet delivered to a listener
    sigPending,     \* a SIGINT that has arrived and whose handler has not run
    console,        \* the last line written by triggerSync ("none" before any)
    wh,             \* history of the watcher, read by the properties only
    \* ---- sync-journal.js ----
    src,            \* obsidian/journal: file name -> content
    dst,            \* src/content/journal: file name -> content
    head,           \* git: the two directories as of the last commit
    index,          \* git: the two directories as staged
    ahead,          \* git: a commit exists that has not been pushed
    elsewhere,      \* git: the rest of the repository, in the work tree,
                    \* as staged and as of the last commit
    mode,           \* "once" or "watch" (CONTINUOUS_MODE)
    proc,           \* the process: "notstarted", "running", "exited"
    exitCode,       \* its exit code (NoCode while it runs)
    intervalId,     \* the setInterval timer is armed
    elapsed,        \* minutes since the interval timer was armed or last fired
    runs,           \* the invocations of syncJournal: slot -> locals and position
    budget,         \* what the environment may still do: runs to start, user edits
    sh,             \* history of the sync, read by the properties only
    \* ---- ensureFrontmatter called on its own ----
    norm,           \* the last call: its arguments and what it returned
    \* ---- the now-playing endpoint (GET) ----
    np              \* one request: position, provider replies, requests sent

xvars == <<norm, np>>

wvars == <<now, timers, syncTimeout, syncInFlight, lastReason, wpc, wstate,
           fsQueue, sigPending, console, wh>>

svars == <<src, dst, head, index, ahead, elsewhere, mode, proc, exitCode,
           intervalId, elapsed, runs, budget, sh>>

vars == <<wvars, svars, xvars>>

----------------------------------------------------------------------------
(* Bounds of the model *)

MaxTime == 75
TickMinutes == 15
MaxPending == 2
MaxRunsCounted == 2

(* Program constants *)

DEBOUNCE_MINUTES == 30

NoTimer == 0
NoTime == 0 - 1

Min(a, b) == IF a <= b THEN a ELSE b

FileReasons == {"file added", "file changed", "file removed"}

ReasonOf(kind) ==
    CASE kind = "add" -> "file added"
      [] kind = "change" -> "file changed"
      [] kind = "unlink" -> "file removed"

EventKinds == {"add", "change", "unlink"}

----------------------------------------------------------------------------
(* The event loop's timers *)

TimerIds(tset) == {t.id : t \in tset}

\* setTimeout returns a handle distinct from every live handle and from the
\* handle the caller still holds.
FreshTimer(tset, held) ==
    CHOOSE i \in 1..(Cardinality(tset) + 2) :
        /\ i \notin TimerIds(tset) \cup {held}
        /\ \A j \in 1..(i - 1) : j \in TimerIds(tset) \cup {held}

clearTimeout(tset, handle) == {t \in tset : t.id # handle}

setTimeout(tset, id, reason, delay) ==
    tset \cup {[id |-> id, at |-> now + delay, reason |-> reason]}

\* A faulty variant: the pending timer is not cleared.
ScheduledTimers_NoClear(reason) ==
    setTimeout(timers, FreshTimer(timers, syncTimeout), reason, DEBOUNCE_MINUTES)

\* scheduleSync, as a function of the timer set and the handle:
\* the timer set after `if (syncTimeout) clearTimeout(syncTimeout)` and setTimeout.
ScheduledTimers(reason) ==
    LET kept == IF syncTimeout # NoTimer THEN clearTimeout(timers, syncTimeout)
                ELSE timers
    IN setTimeout(kept, FreshTimer(timers, syncTimeout), reason, DEBOUNCE_MINUTES)

\* A faulty variant: the handle of the new timer is not kept.
scheduleSync_LoseHandle(reason) ==
    /\ lastReason' = reason
    /\ timers' = ScheduledTimers(reason)
    /\ syncTimeout' = syncTimeout

scheduleSync(reason) ==
    /\ lastReason' = reason
    /\ timers' = ScheduledTimers(reason)
    /\ syncTimeout' = FreshTimer(timers, syncTimeout)

Armed(tset, at) == \E t \in tset : t.at = at

----------------------------------------------------------------------------
(* History of the watcher.                                                 *)
(*   active       sync subprocesses running now                            *)
(*   lastEventAt  when a listener last handled a file event (NoTime: never)*)
(*   lastInFlight whether that event reached the OS while a sync ran       *)
(*   burst        events of the current burst: each handled less than      *)
(*                DEBOUNCE_MINUTES after the one before                    *)
(*   evRuns       runs started by a file-event timer since that event      *)
(*   allRuns      runs started (by any timer) since that event             *)
(*   runBy        the reason of the timer that started the last run        *)
(*   runDelay     minutes from that event to the start of the last run     *)
(*                (NoTime: no event had been handled)                      *)
(*   outcome      how the last finished subprocess ended                   *)

WhInit ==
    [active |-> 0, lastEventAt |-> NoTime, lastInFlight |-> FALSE, burst |-> 0,
     evRuns |-> 0, allRuns |-> 0, runBy |-> "none", runDelay |-> NoTime,
     outcome |-> "none"]

Capped(n) == Min(n, MaxRunsCounted)

WhEvent(e) ==
    [wh EXCEPT !.lastEventAt = now, !.lastInFlight = e.inFlight,
               !.burst = IF wh.lastEventAt # NoTime
                            /\ now - wh.lastEventAt < DEBOUNCE_MINUTES
                         THEN Capped(@ + 1) ELSE 1,
               !.evRuns = 0, !.allRuns = 0]

WhRunStart(reason) ==
    [wh EXCEPT !.active = Capped(@ + 1),
               !.evRuns = IF reason \in FileReasons THEN Capped(@ + 1) ELSE @,
               !.allRuns = Capped(@ + 1),
               !.runBy = reason,
               !.runDelay = IF wh.lastEventAt = NoTime THEN NoTime
                            ELSE now - wh.lastEventAt]

WhRunEnd(outcome) ==
    [wh EXCEPT !.active = @ - 1, !.outcome = outcome]

----------------------------------------------------------------------------
(* watch-journal.js *)

\* A faulty variant: the script does not arm the startup timer of line 77.
WatcherInit_NoStartup ==
    /\ now = 0
    /\ syncInFlight = FALSE
    /\ lastReason = "startup"
    /\ timers = {}
    /\ syncTimeout = 0
    /\ wpc = "idle"
    /\ wstate = "running"
    /\ fsQueue = <<>>
    /\ sigPending = FALSE
    /\ console = "none"
    /\ wh = WhInit

WatcherInit ==
    /\ now = 0
    /\ syncInFlight = FALSE
    /\ lastReason = "startup"
    \* line 77: scheduleSync("startup") runs before the loop starts
    /\ timers = {[id |-> 1, at |-> DEBOUNCE_MINUTES, reason |-> "startup"]}
    /\ syncTimeout = 1
    /\ wpc = "idle"
    /\ wstate = "running"
    /\ fsQueue = <<>>
    /\ sigPending = FALSE
    /\ console = "none"
    /\ wh = WhInit

\* A file of obsidian/journal (no dotfile) is added, changed or removed.  The
\* OS reports it whether or not the JS thread is free.
FsChange(kind) ==
    /\ wstate = "running"
    /\ Len(fsQueue) < MaxPending
    /\ fsQueue' = Append(fsQueue, [kind |-> kind, inFlight |-> syncInFlight])
    /\ UNCHANGED <<now, timers, syncTimeout, syncInFlight, lastReason, wpc,
                   wstate, sigPending, console, wh,
                   svars, xvars>>

\* A faulty variant: the listener syncs at once, as the older watcher did.
OnFsEvent_Immediate ==
    /\ wstate = "running"
    /\ wpc = "idle"
    /\ fsQueue # <<>>
    /\ fsQueue' = Tail(fsQueue)
    /\ syncInFlight' = TRUE
    /\ wpc' = "execSync"
    /\ console' = "syncing"
    /\ wh' = WhRunStart(ReasonOf(Head(fsQueue).kind))
    /\ UNCHANGED <<now, timers, syncTimeout, lastReason, wstate, sigPending,
                   svars, xvars>>

\* The "add" / "change" / "unlink" listeners (lines 59-71).
OnFsEvent ==
    /\ wstate = "running"
    /\ wpc = "idle"
    /\ fsQueue # <<>>
    /\ fsQueue' = Tail(fsQueue)
    /\ scheduleSync(ReasonOf(Head(fsQueue).kind))
    /\ wh' = WhEvent(Head(fsQueue))
    /\ UNCHANGED <<now, syncInFlight, wpc, wstate, sigPending, console,
                   svars, xvars>>

\* A faulty variant: the subprocess is started without waiting for it, the
\* event loop stays free.
triggerSync_Async(t) ==
    IF syncInFlight
    THEN /\ console' = "skipping"
         /\ UNCHANGED <<syncTimeout, syncInFlight, lastReason, wpc, wh>>
    ELSE /\ syncInFlight' = TRUE
         /\ console' = "syncing"
         /\ wh' = WhRunStart(t.reason)
         /\ UNCHANGED <<syncTimeout, lastReason, wpc>>

\* A due timer's callback: triggerSync(reason) up to the execSync call
\* (lines 31-40).  execSync blocks the thread until the subprocess ends.
triggerSync(t) ==
    IF syncInFlight
    THEN /\ console' = "skipping"
         /\ UNCHANGED <<syncTimeout, syncInFlight, lastReason, wpc, wh>>
    ELSE /\ syncInFlight' = TRUE
         /\ console' = "syncing"
         /\ wpc' = "execSync"
         /\ wh' = WhRunStart(t.reason)
         /\ UNCHANGED <<syncTimeout, lastReason>>

TimerFire ==
    \E t \in timers :
        /\ wstate # "exited"
        /\ wpc = "idle"
        /\ t.at <= now
        /\ timers' = timers \ {t}
        /\ triggerSync(t)
        /\ UNCHANGED <<now, wstate, fsQueue, sigPending,
                   svars, xvars>>

\* A faulty variant: the finally block does not call scheduleSync.
ExecSyncEnd_NoRearm(outcome) ==
    /\ wstate # "exited"
    /\ wpc = "execSync"
    /\ console' = IF outcome = "ok" THEN "finished" ELSE "error"
    /\ syncInFlight' = FALSE
    /\ wpc' = "idle"
    /\ wh' = WhRunEnd(outcome)
    /\ UNCHANGED <<now, timers, syncTimeout, lastReason, wstate, fsQueue, sigPending,
                   svars, xvars>>

\* execSync returns or throws; then the catch and the finally (lines 41-47).
ExecSyncEnd(outcome) ==
    /\ wstate # "exited"
    /\ wpc = "execSync"
    /\ console' = IF outcome = "ok" THEN "finished" ELSE "error"
    /\ syncInFlight' = FALSE
    /\ scheduleSync("post-sync")
    /\ wpc' = "idle"
    /\ wh' = WhRunEnd(outcome)
    /\ UNCHANGED <<now, wstate, fsQueue, sigPending,
                   svars, xvars>>

\* Ctrl+C.
Sigint ==
    /\ wstate = "running"
    /\ ~sigPending
    /\ sigPending' = TRUE
    /\ UNCHANGED <<now, timers, syncTimeout, syncInFlight, lastReason, wpc,
                   wstate, fsQueue, console, wh,
                   svars, xvars>>

\* The SIGINT handler (lines 80-83): watcher.close() is started.
OnSigint ==
    /\ wstate = "running"
    /\ wpc = "idle"
    /\ sigPending
    /\ sigPending' = FALSE
    /\ wstate' = "closing"
    /\ UNCHANGED <<now, timers, syncTimeout, syncInFlight, lastReason, wpc,
                   fsQueue, console, wh,
                   svars, xvars>>

\* close() resolves: process.exit(0).
CloseResolved ==
    /\ wstate = "closing"
    /\ wpc = "idle"
    /\ wstate' = "exited"
    /\ UNCHANGED <<now, timers, syncTimeout, syncInFlight, lastReason, wpc,
                   fsQueue, sigPending, console, wh,
                   svars, xvars>>

\* Time passes.  A free event loop runs a timer's callback when it is due, so
\* the clock does not pass an armed deadline while the thread is idle; while
\* execSync blocks the thread the clock runs on.
NextDeadline ==
    IF wpc = "idle" /\ timers # {}
    THEN CHOOSE d \in {t.at : t \in timers} : \A t \in timers : d <= t.at
    ELSE MaxTime

Tick ==
    /\ wstate # "exited"
    /\ now < MaxTime
    /\ now < NextDeadline
    /\ now' = Min(Min(now + TickMinutes, NextDeadline), MaxTime)
    /\ UNCHANGED <<timers, syncTimeout, syncInFlight, lastReason, wpc, wstate,
                   fsQueue, sigPending, console, wh,
                   svars, xvars>>

----------------------------------------------------------------------------
(* Text.  A string is the sequence of its characters. *)

Delimiter ==
    <<"-", "-", "-">>

Line1 ==
    <<"-", "-", "-", "\n">>

TitleOpen ==
    <<"t", "i", "t", "l", "e", ":", " ", "\"", "J", "o", "u", "r", "n",
      "a", "l", " ", "-", " ">>

DateOpen ==
    <<"d", "a", "t", "e", ":", " ", "\"">>

QuoteNl ==
    <<"\"", "\n">>

DescriptionLine ==
    <<"d", "e", "s", "c", "r", "i", "p", "t", "i", "o", "n", ":", " ",
      "\"", "D", "a", "i", "l", "y", " ", "j", "o", "u", "r", "n", "a",
      "l", " ", "e", "n", "t", "r", "y", "\"", "\n">>

Closing ==
    <<"-", "-", "-", "\n", "\n">>

DotMd ==
    <<".", "m", "d">>

\* A faulty variant: the whole string is compared with the prefix.
startsWith_Whole(s, prefix) == s = prefix

startsWith(s, prefix) ==
    /\ Len(s) >= Len(prefix)
    /\ SubSeq(s, 1, Len(prefix)) = prefix

endsWith(s, suffix) ==
    /\ Len(s) >= Len(suffix)
    /\ SubSeq(s, Len(s) - Len(suffix) + 1, Len(s)) = suffix

\* path.basename(filename, ext) of a name without separators
basename(filename, ext) ==
    IF filename = ext THEN <<>>
    ELSE IF endsWith(filename, ext)
         THEN SubSeq(filename, 1, Len(filename) - Len(ext))
         ELSE filename

\* A faulty variant: no blank line after the closing delimiter.
frontmatterOf_NoBlankLine(date) ==
    Line1 \o TitleOpen \o date \o QuoteNl \o DateOpen \o date \o QuoteNl
          \o DescriptionLine \o Line1

\* The template literal of lines 31-35.
frontmatterOf(date) ==
    Line1 \o TitleOpen \o date \o QuoteNl \o DateOpen \o date \o QuoteNl
          \o DescriptionLine \o Closing

\* A faulty variant: the frontmatter is prepended whatever the content.
ensureFrontmatter_Always(filename, rawContent) ==
    [content |-> frontmatterOf(basename(filename, DotMd)) \o rawContent,
     changed |-> TRUE]

ensureFrontmatter(filename, rawContent) ==
    IF startsWith(rawContent, Delimiter)
    THEN [content |-> rawContent, changed |-> FALSE]
    ELSE [content |-> frontmatterOf(basename(filename, DotMd)) \o rawContent,
          changed |-> TRUE]

----------------------------------------------------------------------------
(* ensureFrontmatter called on its own, on every short name and text *)

MaxNameLen == 4
MaxTextLen == 4

NameChars == {"a", ".", "m", "d"}
TextChars == {"-", "\n", "x"}

SeqsUpTo(S, n) == UNION {[1..k -> S] : k \in 0..n}

\* Directory entries: not empty, no separator.  Few of them are dates, some
\* do not end in .md.
Names == SeqsUpTo(NameChars, MaxNameLen) \ {<<>>}

\* What readFile(sourcePath, "utf-8") can return.
Texts == SeqsUpTo(TextChars, MaxTextLen)

NormIdle ==
    norm = [called |-> FALSE, filename |-> <<>>, rawContent |-> <<>>,
            content |-> <<>>, changed |-> FALSE,
            again |-> FALSE, content2 |-> <<>>, changed2 |-> FALSE]

\* The arguments of a call that has not been made yet.
NormInputs ==
    norm \in {[called |-> FALSE, filename |-> filename, rawContent |-> rawContent,
               content |-> <<>>, changed |-> FALSE,
               again |-> FALSE, content2 |-> <<>>, changed2 |-> FALSE] :
                 filename \in Names, rawContent \in Texts}

\* const { content, changed } = ensureFrontmatter(file, rawContent)
Normalize ==
    /\ ~norm.called
    /\ LET e == ensureFrontmatter(norm.filename, norm.rawContent)
       IN norm' = [norm EXCEPT !.called = TRUE, !.content = e.content,
                               !.changed = e.changed]
    /\ UNCHANGED <<np, wvars, svars>>

\* The same call in the next pass over the file, which now holds what the
\* pass before returned (and wrote, when changed): lines 53-59.
NormalizeAgain ==
    /\ norm.called
    /\ ~norm.again
    /\ LET e == ensureFrontmatter(norm.filename, norm.content)
       IN norm' = [norm EXCEPT !.again = TRUE, !.content2 = e.content,
                               !.changed2 = e.changed]
    /\ UNCHANGED <<np, wvars, svars>>

NormalizeNext ==
    \/ Normalize
    \/ NormalizeAgain

----------------------------------------------------------------------------
(* The now-playing endpoint: GET of src/components/Navbar.tsx.             *)
(*   pc        "idle", "token" (the token request is out), "tracks" (the   *)
(*             two track requests are out), "responded", "threw"           *)
(*   sent      the requests sent to the provider, in order                 *)
(*   tokenReply, nowReply, recentReply   what the provider answered        *)
(*   response  what the handler returned                                   *)

TrackName == <<"T">>
AlbumName == <<"L">>
ArtistNames == <<(<<"A">>), (<<"B">>)>>

\* The parts of a track object the handler reads: name, artists?, album?.name
Items ==
    {[name |-> TrackName,
      hasArtists |-> ha,
      artists |-> IF ha THEN SubSeq(ArtistNames, 1, n) ELSE <<>>,
      hasAlbum |-> hl,
      album |-> IF hl THEN AlbumName ELSE <<>>] :
        ha \in BOOLEAN, n \in 0..Len(ArtistNames), hl \in BOOLEAN}

NoItem ==
    [name |-> <<>>, hasArtists |-> FALSE, artists |-> <<>>, hasAlbum |-> FALSE,
     album |-> <<>>]

\* What the provider can answer to a track request: the request fails
\* ("reject"), status 204, a status that is not ok, an ok reply whose body is
\* no JSON ("badjson"), an ok JSON reply without a track, one with a track.
TrackReplies ==
    {[kind |-> k, item |-> NoItem] :
        k \in {"reject", "204", "notok", "badjson", "notrack"}}
    \cup {[kind |-> "track", item |-> it] : it \in Items}

\* What it can answer to the token request.
TokenReplies == {"reject", "notok", "badjson", "notoken", "token"}

Pending == [kind |-> "pending", item |-> NoItem]
NoReply == [kind |-> "none", item |-> NoItem]

NullTrack == [isNull |-> TRUE, title |-> <<>>, artist |-> <<>>, album |-> <<>>]

NoResponse ==
    [status |-> 0, error |-> "none", now |-> NullTrack, last |-> NullTrack]

NowPlayingIdle ==
    np = [pc |-> "idle", sent |-> <<>>, tokenReply |-> "none",
          nowReply |-> NoReply, recentReply |-> NoReply,
          response |-> NoResponse]

\* artists.map((a) => a.name).join(", ")
RECURSIVE Join(_)
Join(names) ==
    IF names = <<>> THEN <<>>
    ELSE IF Len(names) = 1 THEN Head(names)
    ELSE Head(names) \o <<",", " ">> \o Join(Tail(names))

\* fetchJson throws: fetch rejected, or res.json() failed (lines 180, 185)
Throws(reply) == reply.kind \in {"reject", "badjson"}

\* fetchJson(url, token) of a reply that does not throw: null on 204 and on
\* a status that is not ok, the body otherwise (lines 183-185)
fetchJson(reply) ==
    IF reply.kind = "204"
    THEN [isNull |-> TRUE, hasItem |-> FALSE, item |-> NoItem]
    ELSE IF reply.kind = "notok"
    THEN [isNull |-> TRUE, hasItem |-> FALSE, item |-> NoItem]
    ELSE [isNull |-> FALSE, hasItem |-> reply.kind = "track", item |-> reply.item]

\* nowPlaying?.item and recent?.items?.[0]?.track, and the object built from
\* it (lines 202-219)
TrackOf(json) ==
    IF json.isNull THEN NullTrack
    ELSE IF ~json.hasItem THEN NullTrack
    ELSE [isNull |-> FALSE,
          title |-> json.item.name,
          artist |-> IF json.item.hasArtists THEN Join(json.item.artists)
                     ELSE <<>>,
          album |-> IF json.item.hasAlbum THEN json.item.album ELSE <<>>]

\* new Response(JSON.stringify({ error: "missing_spotify_env" }), { status: 200 })
ErrorResponse ==
    [status |-> 200, error |-> "missing_spotify_env", now |-> NullTrack,
     last |-> NullTrack]

\* new Response(JSON.stringify(result), { status: 200, ... })   (lines 205-228)
ResultResponse(nowReply, recentReply) ==
    [status |-> 200, error |-> "none",
     now |-> TrackOf(fetchJson(nowReply)),
     last |-> TrackOf(fetchJson(recentReply))]

\* A request arrives: GET calls getAccessToken, which returns null when a
\* credential is missing and sends the token request otherwise (lines 152-172,
\* 189-195).
NpRequest(envComplete) ==
    /\ np.pc \in {"idle", "responded", "threw"}
    /\ np' = IF envComplete
             THEN [pc |-> "token", sent |-> <<"token">>, tokenReply |-> "none",
                   nowReply |-> NoReply, recentReply |-> NoReply,
                   response |-> NoResponse]
             ELSE [pc |-> "responded", sent |-> <<>>, tokenReply |-> "none",
                   nowReply |-> NoReply, recentReply |-> NoReply,
                   response |-> ErrorResponse]
    /\ UNCHANGED <<norm, wvars, svars>>

\* A faulty variant: the track requests are sent whatever the token request
\* gave.
NpTokenReply_AlwaysTracks(reply) ==
    /\ np.pc = "token"
    /\ np' = IF reply \in {"reject", "badjson"}
             THEN [np EXCEPT !.pc = "threw", !.tokenReply = reply]
             ELSE [np EXCEPT !.pc = "tracks", !.tokenReply = reply,
                             !.sent = @ \o <<"now", "recent">>,
                             !.nowReply = Pending, !.recentReply = Pending]
    /\ UNCHANGED <<norm, wvars, svars>>

\* The token request ends: getAccessToken returns null or data.access_token;
\* without a token GET answers at once, with one it calls fetchJson twice
\* inside Promise.all (lines 174-176, 189-200).
NpTokenReply(reply) ==
    /\ np.pc = "token"
    /\ np' = CASE reply \in {"reject", "badjson"} ->
                    [np EXCEPT !.pc = "threw", !.tokenReply = reply]
               [] reply \in {"notok", "notoken"} ->
                    [np EXCEPT !.pc = "responded", !.tokenReply = reply,
                               !.response = ErrorResponse]
               [] reply = "token" ->
                    [np EXCEPT !.pc = "tracks", !.tokenReply = reply,
                               !.sent = @ \o <<"now", "recent">>,
                               !.nowReply = Pending, !.recentReply = Pending]
    /\ UNCHANGED <<norm, wvars, svars>>

\* GET after one of the two track requests has ended: Promise.all rejects as
\* soon as one fetchJson throws, waits while the other is out, and with both
\* values GET builds the result (lines 197-228).
Settled(nowReply, recentReply) ==
    IF Throws(nowReply) \/ Throws(recentReply)
    THEN [np EXCEPT !.pc = "threw", !.nowReply = nowReply,
                    !.recentReply = recentReply]
    ELSE IF nowReply = Pending \/ recentReply = Pending
    THEN [np EXCEPT !.nowReply = nowReply, !.recentReply = recentReply]
    ELSE [np EXCEPT !.pc = "responded", !.nowReply = nowReply,
                    !.recentReply = recentReply,
                    !.response = ResultResponse(nowReply, recentReply)]

NpNowReply(reply) ==
    /\ np.pc = "tracks"
    /\ np.nowReply = Pending
    /\ np' = Settled(reply, np.recentReply)
    /\ UNCHANGED <<norm, wvars, svars>>

NpRecentReply(reply) ==
    /\ np.pc = "tracks"
    /\ np.recentReply = Pending
    /\ np' = Settled(np.nowReply, reply)
    /\ UNCHANGED <<norm, wvars, svars>>

NowPlayingNext ==
    \/ \E envComplete \in BOOLEAN : NpRequest(envComplete)
    \/ \E reply \in TokenReplies : NpTokenReply(reply)
    \/ \E reply \in TrackReplies : NpNowReply(reply)
    \/ \E reply \in TrackReplies : NpRecentReply(reply)

----------------------------------------------------------------------------
(* Files and directories *)

A_md == <<"a", ".", "m", "d">>
B_md == <<"b", ".", "m", "d">>
N_txt == <<"n", ".", "t", "x", "t">>

FileNames == {A_md, B_md, N_txt}

Plain == <<"H", "i">>
WithFm == <<"-", "-", "-", "\n", "x">>

Contents == {Plain, WithFm}

EmptyDir == [f \in {} |-> <<>>]

\* The directories the model starts from and the user's writes draw on.
Dirs == UNION {[S -> Contents] : S \in SUBSET FileNames}

\* The vaults the model starts from: a.md without frontmatter, b.md with,
\* n.txt, each present or not.
InitSrcDirs ==
    {d \in Dirs : \A f \in DOMAIN d : d[f] = IF f = B_md THEN WithFm ELSE Plain}

\* The content folders the model starts from: empty, or left by an earlier
\* state of the vault, every file with another content than the vault's.
OldDst == (A_md :> Plain) @@ (B_md :> Plain) @@ (N_txt :> WithFm)

InitDstDirs == {EmptyDir, OldDst}

\* The files the user edits while the model runs.
UserFiles == {A_md}

writeFile(dir, f, content) ==
    [g \in (DOMAIN dir) \cup {f} |-> IF g = f THEN content ELSE dir[g]]

unlink(dir, f) == [g \in (DOMAIN dir) \ {f} |-> dir[g]]

\* A faulty variant: no filter, every directory entry is taken.
MarkdownNames_All(dir) == DOMAIN dir

\* files.filter((file) => file.endsWith(".md"))
MarkdownNames(dir) == {f \in DOMAIN dir : endsWith(f, DotMd)}

Range(q) == {q[k] : k \in 1..Len(q)}

\* readdir returns the names in an order the platform chooses.
Listings(S) ==
    {q \in [1..Cardinality(S) -> S] :
        \A k, l \in 1..Cardinality(S) : k # l => q[k] # q[l]}

\* A faulty variant: no file of the destination is taken for stale.
StaleFiles_None(destDir, markdownFiles) == {}

\* The destination's .md files that are not in sourceSet (lines 66-69).
StaleFiles(destDir, markdownFiles) ==
    {f \in MarkdownNames(destDir) : f \notin Range(markdownFiles)}

----------------------------------------------------------------------------
(* git, restricted to obsidian/journal and src/content/journal *)

Worktree == [s |-> src, d |-> dst]

\* The paths of the repository outside the two directories: the site's own
\* sources, which their author has edited since the last commit and has not
\* staged.
ElsewhereEdited ==
    [work |-> "edited", index |-> "committed", head |-> "committed"]

\* A faulty variant: a commit that has not been pushed counts as a change.
StatusNonEmpty_Unpushed == head # index \/ index # Worktree \/ ahead

\* git status --porcelain obsidian/journal src/content/journal, trimmed,
\* is not empty
StatusNonEmpty == head # index \/ index # Worktree

----------------------------------------------------------------------------
(* sync-journal.js *)

MaxActive == 2
MaxRuns == 2
MaxUserOps == 1

CHECK_INTERVAL_MINUTES == 30

NoCode == 0 - 1

Slots == 1..MaxActive

GitPcs == {"status", "add", "commit", "push"}
IdlePcs == {"free", "done", "killed"}

FreeRun ==
    [pc |-> "free", first |-> FALSE, markdownFiles |-> <<>>, i |-> 0,
     content |-> <<>>, changed |-> FALSE, destFiles |-> <<>>,
     result |-> "none", failedAt |-> "none", ops |-> <<>>,
     (* history *)
     dirty |-> FALSE, src0 |-> EmptyDir, dst0 |-> EmptyDir,
     prev |-> [outcome |-> "none", quiet |-> FALSE]]

Active(r) == runs[r].pc \notin IdlePcs

\* No invocation is inside a blocking execSync: the JS thread can run another
\* callback or continuation.
ThreadFree == \A r \in Slots : runs[r].pc \notin GitPcs

FreeSlot ==
    CHOOSE r \in Slots : ~Active(r) /\ \A q \in 1..(r - 1) : Active(q)

SomeSlotFree == \E r \in Slots : ~Active(r)

\* syncJournal() is called: the body runs up to its first await (line 42).
NewRun(first) ==
    [FreeRun EXCEPT !.pc = "mkdir", !.first = first,
                    !.src0 = src, !.dst0 = dst,
                    !.prev = IF \E r \in Slots : Active(r)
                             THEN [outcome |-> "overlap", quiet |-> FALSE]
                             ELSE [outcome |-> sh.lastOutcome, quiet |-> sh.quiet]]

ShInit ==
    [procRuns |-> 0, lastOutcome |-> "none", quiet |-> FALSE, exitBy |-> "none",
     userLast |-> EmptyDir]

SyncInit ==
    /\ src \in InitSrcDirs
    /\ dst \in InitDstDirs
    /\ head \in {[s |-> src, d |-> dst], [s |-> EmptyDir, d |-> EmptyDir]}
    /\ index = head
    /\ ahead = FALSE
    /\ elsewhere = ElsewhereEdited
    /\ mode = "once"
    /\ proc = "notstarted"
    /\ exitCode = NoCode
    /\ intervalId = FALSE
    /\ elapsed = 0
    /\ runs = [r \in Slots |-> FreeRun]
    /\ budget = [runs |-> MaxRuns, userOps |-> MaxUserOps]
    /\ sh = ShInit

\* node scripts/sync-journal.js [--watch]: lines 133-137, and runContinuously
\* up to its await (line 109).
Launch(m) ==
    /\ proc # "running"
    /\ proc = "exited" => m = mode
    /\ budget.runs > 0
    /\ budget' = [budget EXCEPT !.runs = @ - 1]
    /\ mode' = m
    /\ proc' = "running"
    /\ exitCode' = NoCode
    /\ intervalId' = FALSE
    /\ elapsed' = 0
    /\ runs' = [runs EXCEPT ![FreeSlot] = NewRun(TRUE)]
    /\ sh' = [sh EXCEPT !.procRuns = 1, !.exitBy = "none"]
    /\ UNCHANGED <<src, dst, head, index, ahead, elsewhere, wvars, xvars>>

\* What a finished invocation leaves in its slot.
Finished(r, result, failedAt, ops) ==
    [runs[r] EXCEPT !.pc = "done", !.result = result, !.failedAt = failedAt,
                    !.ops = ops, !.markdownFiles = <<>>, !.i = 0,
                    !.content = <<>>, !.changed = FALSE, !.destFiles = <<>>]

OutcomeOf(result, failedAt) == IF result = "error" THEN failedAt ELSE result

\* A faulty variant: the catch exits the process in every mode, as the
\* older one-shot script did.
Return_ExitAlways(r, result, failedAt, ops) ==
    /\ runs' = [runs EXCEPT ![r] = Finished(r, result, failedAt, ops)]
    /\ sh' = [sh EXCEPT !.lastOutcome = OutcomeOf(result, failedAt),
                        !.quiet = ~runs[r].dirty,
                        !.exitBy = IF result = "error" THEN "catch"
                                   ELSE IF mode = "once" THEN "end" ELSE @]
    /\ IF result = "error" \/ mode = "once"
       THEN /\ proc' = "exited"
            /\ exitCode' = IF result = "error" THEN 1 ELSE 0
            /\ intervalId' = FALSE
            /\ UNCHANGED elapsed
       ELSE /\ intervalId' = (intervalId \/ runs[r].first)
            /\ elapsed' = IF runs[r].first THEN 0 ELSE elapsed
            /\ UNCHANGED <<proc, exitCode>>

\* A faulty variant: a run that failed leaves the interval timer cleared.
Return_ClearOnError(r, result, failedAt, ops) ==
    /\ runs' = [runs EXCEPT ![r] = Finished(r, result, failedAt, ops)]
    /\ sh' = [sh EXCEPT !.lastOutcome = OutcomeOf(result, failedAt),
                        !.quiet = ~runs[r].dirty,
                        !.exitBy = IF mode # "once" THEN @
                                   ELSE IF result = "error" THEN "catch"
                                   ELSE "end"]
    /\ IF mode = "once"
       THEN /\ proc' = "exited"
            /\ exitCode' = IF result = "error" THEN 1 ELSE 0
            /\ UNCHANGED <<intervalId, elapsed>>
       ELSE /\ intervalId' = (result # "error" /\ (intervalId \/ runs[r].first))
            /\ elapsed' = IF runs[r].first THEN 0 ELSE elapsed
            /\ UNCHANGED <<proc, exitCode>>

\* syncJournal returns (lines 79-82, 92-93) or its catch runs (lines 94-100),
\* and what follows in the process: process.exit(1) in the catch of a
\* one-shot process, the end of a one-shot process whose only task is done,
\* setInterval after the awaited first run of runContinuously (lines 109-116).
Return(r, result, failedAt, ops) ==
    /\ runs' = [runs EXCEPT ![r] = Finished(r, result, failedAt, ops)]
    /\ sh' = [sh EXCEPT !.lastOutcome = OutcomeOf(result, failedAt),
                        !.quiet = ~runs[r].dirty,
                        !.exitBy = IF mode # "once" THEN @
                                   ELSE IF result = "error" THEN "catch"
                                   ELSE "end"]
    /\ IF mode = "once"
       THEN /\ proc' = "exited"
            /\ exitCode' = IF result = "error" THEN 1 ELSE 0
            /\ UNCHANGED <<intervalId, elapsed>>
       ELSE /\ intervalId' = (intervalId \/ runs[r].first)
            /\ elapsed' = IF runs[r].first THEN 0 ELSE elapsed
            /\ UNCHANGED <<proc, exitCode>>

Throw(r, at) == Return(r, "error", at, runs[r].ops)

Goto(r, pc) ==
    /\ runs' = [runs EXCEPT ![r].pc = pc]
    /\ UNCHANGED <<proc, exitCode, intervalId, elapsed, sh>>

\* The invocations as they are after invocation r has written to a directory:
\* when the write changed it, every other invocation has seen a change that
\* is not its own.
Disturb(r, changed) ==
    [q \in Slots |->
       IF q # r /\ runs[q].pc # "free" /\ changed
       THEN [runs[q] EXCEPT !.dirty = TRUE]
       ELSE runs[q]]

\* A continuation of an awaiting invocation can run.
CanResume(r, pc) ==
    /\ proc = "running"
    /\ runs[r].pc = pc
    /\ ThreadFree

\* await fs.mkdir(contentDir, { recursive: true })   (line 42)
Mkdir(r, ok) ==
    /\ CanResume(r, "mkdir")
    /\ IF ok THEN Goto(r, "readdirSrc") ELSE Throw(r, "mkdir")
    /\ UNCHANGED <<src, dst, head, index, ahead, mode, budget, elsewhere, wvars, xvars>>

\* await fs.readdir(obsidianDir) and the filter   (lines 44-47)
ReaddirSrc(r, ok) ==
    /\ CanResume(r, "readdirSrc")
    /\ IF ok
       THEN \E listing \in Listings(MarkdownNames(src)) :
              /\ runs' = [runs EXCEPT
                            ![r].markdownFiles = listing,
                            ![r].i = 1,
                            ![r].pc = IF listing = <<>> THEN "readdirDst"
                                      ELSE "readFile"]
              /\ UNCHANGED <<proc, exitCode, intervalId, elapsed, sh>>
       ELSE Throw(r, "readdirSrc")
    /\ UNCHANGED <<src, dst, head, index, ahead, mode, budget, elsewhere, wvars, xvars>>

File(r) == runs[r].markdownFiles[runs[r].i]

\* A faulty variant: the source file is written whether or not the content
\* changed.
ReadFile_WriteAlways(r, ok) ==
    /\ CanResume(r, "readFile")
    /\ IF ok /\ File(r) \in DOMAIN src
       THEN LET e == ensureFrontmatter(File(r), src[File(r)])
            IN /\ runs' = [runs EXCEPT
                             ![r].content = e.content,
                             ![r].changed = e.changed,
                             ![r].pc = "writeSrc"]
               /\ UNCHANGED <<proc, exitCode, intervalId, elapsed, sh>>
       ELSE Throw(r, "readFile")
    /\ UNCHANGED <<src, dst, head, index, ahead, mode, budget, elsewhere, wvars, xvars>>

\* await fs.readFile(sourcePath) and ensureFrontmatter   (lines 53-56)
ReadFile(r, ok) ==
    /\ CanResume(r, "readFile")
    /\ IF ok /\ File(r) \in DOMAIN src
       THEN LET e == ensureFrontmatter(File(r), src[File(r)])
            IN /\ runs' = [runs EXCEPT
                             ![r].content = e.content,
                             ![r].changed = e.changed,
                             ![r].pc = IF e.changed THEN "writeSrc"
                                       ELSE "writeDst"]
               /\ UNCHANGED <<proc, exitCode, intervalId, elapsed, sh>>
       ELSE Throw(r, "readFile")
    /\ UNCHANGED <<src, dst, head, index, ahead, mode, budget, elsewhere, wvars, xvars>>

\* A faulty variant: the normalized content is not written to sourcePath.
WriteSrc_Skip(r, ok) ==
    /\ CanResume(r, "writeSrc")
    /\ IF ok THEN Goto(r, "writeDst") ELSE Throw(r, "writeSrc")
    /\ UNCHANGED <<src, dst, head, index, ahead, mode, budget, elsewhere, wvars, xvars>>

\* A faulty variant: the file is written back only while it still holds what
\* the run read.
WriteSrc_IfUnchanged(r, ok) ==
    /\ CanResume(r, "writeSrc")
    /\ IF ok
       THEN /\ src' = IF File(r) \in DOMAIN src
                         /\ ensureFrontmatter(File(r), src[File(r)]).content
                              = runs[r].content
                      THEN writeFile(src, File(r), runs[r].content)
                      ELSE src
            /\ runs' = [Disturb(r, src' # src) EXCEPT ![r].pc = "writeDst"]
            /\ UNCHANGED <<proc, exitCode, intervalId, elapsed, sh>>
       ELSE /\ Throw(r, "writeSrc")
            /\ UNCHANGED src
    /\ UNCHANGED <<dst, head, index, ahead, mode, budget, elsewhere, wvars, xvars>>

\* await fs.writeFile(sourcePath, content)   (lines 56-59)
WriteSrc(r, ok) ==
    /\ CanResume(r, "writeSrc")
    /\ IF ok
       THEN /\ src' = writeFile(src, File(r), runs[r].content)
            /\ runs' = [Disturb(r, src' # src) EXCEPT ![r].pc = "writeDst"]
            /\ UNCHANGED <<proc, exitCode, intervalId, elapsed, sh>>
       ELSE /\ Throw(r, "writeSrc")
            /\ UNCHANGED src
    /\ UNCHANGED <<dst, head, index, ahead, mode, budget, elsewhere, wvars, xvars>>

\* A faulty variant: a failed write puts the content directory back as the
\* run found it.
WriteDst_Rollback(r, ok) ==
    /\ CanResume(r, "writeDst")
    /\ IF ok
       THEN /\ dst' = writeFile(dst, File(r), runs[r].content)
            /\ runs' = [Disturb(r, dst' # dst) EXCEPT
                          ![r].i = @ + 1,
                          ![r].pc = IF runs[r].i < Len(runs[r].markdownFiles)
                                    THEN "readFile" ELSE "readdirDst"]
            /\ UNCHANGED <<proc, exitCode, intervalId, elapsed, sh>>
       ELSE /\ Throw(r, "writeDst")
            /\ dst' = runs[r].dst0
    /\ UNCHANGED <<src, head, index, ahead, mode, budget, elsewhere, wvars, xvars>>

\* await fs.writeFile(destPath, content), and the loop's next round or the
\* readdir of contentDir   (lines 61-66)
WriteDst(r, ok) ==
    /\ CanResume(r, "writeDst")
    /\ IF ok
       THEN /\ dst' = writeFile(dst, File(r), runs[r].content)
            /\ runs' = [Disturb(r, dst' # dst) EXCEPT
                          ![r].i = @ + 1,
                          ![r].pc = IF runs[r].i < Len(runs[r].markdownFiles)
                                    THEN "readFile" ELSE "readdirDst"]
            /\ UNCHANGED <<proc, exitCode, intervalId, elapsed, sh>>
       ELSE /\ Throw(r, "writeDst")
            /\ UNCHANGED dst
    /\ UNCHANGED <<src, head, index, ahead, mode, budget, elsewhere, wvars, xvars>>

\* await fs.readdir(contentDir); the loop then skips to the first stale file.
\* With none left the body goes on to execSync("git status ...")   (lines 66-75)
ReaddirDst(r, ok) ==
    /\ CanResume(r, "readdirDst")
    /\ IF ok
       THEN \E listing \in Listings(StaleFiles(dst, runs[r].markdownFiles)) :
              /\ runs' = [runs EXCEPT
                            ![r].destFiles = listing,
                            ![r].pc = IF listing = <<>> THEN "status"
                                      ELSE "unlink"]
              /\ UNCHANGED <<proc, exitCode, intervalId, elapsed, sh>>
       ELSE Throw(r, "readdirDst")
    /\ UNCHANGED <<src, dst, head, index, ahead, mode, budget, elsewhere, wvars, xvars>>

\* await fs.unlink(path.join(contentDir, file))   (lines 68-73)
Unlink(r, ok) ==
    /\ CanResume(r, "unlink")
    /\ IF ok /\ Head(runs[r].destFiles) \in DOMAIN dst
       THEN /\ dst' = unlink(dst, Head(runs[r].destFiles))
            /\ runs' = [Disturb(r, dst' # dst) EXCEPT
                          ![r].destFiles = Tail(@),
                          ![r].pc = IF Tail(runs[r].destFiles) = <<>>
                                    THEN "status" ELSE "unlink"]
            /\ UNCHANGED <<proc, exitCode, intervalId, elapsed, sh>>
       ELSE /\ Throw(r, "unlink")
            /\ UNCHANGED dst
    /\ UNCHANGED <<src, head, index, ahead, mode, budget, elsewhere, wvars, xvars>>

\* An execSync of this invocation ends.
InExecSync(r, pc) ==
    /\ proc = "running"
    /\ runs[r].pc = pc

Issued(r, command) == Append(runs[r].ops, command)

\* A faulty variant: the run goes on to stage whatever git status printed.
GitStatus_AlwaysPublish(r, ok) ==
    /\ InExecSync(r, "status")
    /\ IF ~ok THEN Return(r, "error", "status", Issued(r, "status"))
       ELSE /\ runs' = [runs EXCEPT ![r].pc = "add",
                                    ![r].ops = Issued(r, "status")]
            /\ UNCHANGED <<proc, exitCode, intervalId, elapsed, sh>>
    /\ UNCHANGED <<src, dst, head, index, ahead, mode, budget, elsewhere, wvars, xvars>>

\* runCapture("git status --porcelain ...").trim()   (lines 75-82)
GitStatus(r, ok) ==
    /\ InExecSync(r, "status")
    /\ IF ~ok THEN Return(r, "error", "status", Issued(r, "status"))
       ELSE IF StatusNonEmpty
            THEN /\ runs' = [runs EXCEPT ![r].pc = "add",
                                         ![r].ops = Issued(r, "status")]
                 /\ UNCHANGED <<proc, exitCode, intervalId, elapsed, sh>>
            ELSE Return(r, "nochanges", "none", Issued(r, "status"))
    /\ UNCHANGED <<src, dst, head, index, ahead, mode, budget, elsewhere, wvars, xvars>>

\* A faulty variant: git add -A, every change in the repository is staged.
GitAdd_All(r, ok) ==
    /\ InExecSync(r, "add")
    /\ IF ok
       THEN /\ index' = Worktree
            /\ elsewhere' = [elsewhere EXCEPT !.index = elsewhere.work]
            /\ runs' = [runs EXCEPT ![r].pc = "commit",
                                    ![r].ops = Issued(r, "add")]
            /\ UNCHANGED <<proc, exitCode, intervalId, elapsed, sh>>
       ELSE /\ Return(r, "error", "add", Issued(r, "add"))
            /\ UNCHANGED <<index, elsewhere>>
    /\ UNCHANGED <<src, dst, head, ahead, mode, budget, wvars, xvars>>

\* run("git add obsidian/journal src/content/journal")   (line 85): the
\* pathspec keeps every other path of the repository out of the index.
GitAdd(r, ok) ==
    /\ InExecSync(r, "add")
    /\ IF ok
       THEN /\ index' = Worktree
            /\ runs' = [runs EXCEPT ![r].pc = "commit",
                                    ![r].ops = Issued(r, "add")]
            /\ UNCHANGED <<proc, exitCode, intervalId, elapsed, sh>>
       ELSE /\ Return(r, "error", "add", Issued(r, "add"))
            /\ UNCHANGED index
    /\ UNCHANGED <<src, dst, head, ahead, mode, budget, elsewhere, wvars, xvars>>

\* run(`git commit -m "journal: update entries ..."`)   (lines 86-87).
\* git commit records the whole index and fails when nothing is staged.
GitCommit(r, ok) ==
    /\ InExecSync(r, "commit")
    /\ IF ok /\ (index # head \/ elsewhere.index # elsewhere.head)
       THEN /\ head' = index
            /\ elsewhere' = [elsewhere EXCEPT !.head = elsewhere.index]
            /\ ahead' = TRUE
            /\ runs' = [runs EXCEPT ![r].pc = "push",
                                    ![r].ops = Issued(r, "commit")]
            /\ UNCHANGED <<proc, exitCode, intervalId, elapsed, sh>>
       ELSE /\ Return(r, "error", "commit", Issued(r, "commit"))
            /\ UNCHANGED <<head, ahead, elsewhere>>
    /\ UNCHANGED <<src, dst, index, mode, budget, wvars, xvars>>

\* run("git push")   (lines 89-93)
GitPush(r, ok) ==
    /\ InExecSync(r, "push")
    /\ IF ok
       THEN /\ ahead' = FALSE
            /\ Return(r, "synced", "none", Issued(r, "push"))
       ELSE /\ Return(r, "error", "push", Issued(r, "push"))
            /\ UNCHANGED ahead
    /\ UNCHANGED <<src, dst, head, index, mode, budget, elsewhere, wvars, xvars>>

\* The setInterval callback (lines 112-116): a new invocation of syncJournal,
\* whatever the earlier ones are doing.
IntervalFire ==
    /\ proc = "running"
    /\ intervalId
    /\ elapsed >= CHECK_INTERVAL_MINUTES
    /\ ThreadFree
    /\ SomeSlotFree
    /\ budget.runs > 0
    /\ budget' = [budget EXCEPT !.runs = @ - 1]
    /\ elapsed' = 0
    /\ runs' = [runs EXCEPT ![FreeSlot] = NewRun(FALSE)]
    /\ sh' = [sh EXCEPT !.procRuns = @ + 1]
    /\ UNCHANGED <<src, dst, head, index, ahead, mode, proc, exitCode,
                   intervalId, elsewhere, wvars, xvars>>

\* The SIGINT and SIGTERM handlers of runContinuously (lines 119-129).
Signal(sig) ==
    /\ proc = "running"
    /\ intervalId
    /\ ThreadFree
    /\ intervalId' = FALSE
    /\ proc' = "exited"
    /\ exitCode' = 0
    /\ runs' = [r \in Slots |->
                  IF Active(r) THEN [FreeRun EXCEPT !.pc = "killed"]
                  ELSE runs[r]]
    /\ elapsed' = 0
    /\ sh' = [sh EXCEPT !.exitBy = sig]
    /\ UNCHANGED <<src, dst, head, index, ahead, mode, budget, elsewhere, wvars, xvars>>

\* SIGINT or SIGTERM while runContinuously still awaits its first run (line
\* 109): process.on has not been called yet (lines 119-129 come after the
\* await), so the signal has its default disposition and ends the process,
\* which the parent sees as status 128 + the signal's number.
SignalDefault(sig) ==
    /\ proc = "running"
    /\ mode = "watch"
    /\ ~intervalId
    /\ proc' = "exited"
    /\ exitCode' = 128 + (IF sig = "SIGINT" THEN 2 ELSE 15)
    /\ runs' = [r \in Slots |->
                  IF Active(r) THEN [FreeRun EXCEPT !.pc = "killed"]
                  ELSE runs[r]]
    /\ sh' = [sh EXCEPT !.exitBy = sig]
    /\ UNCHANGED <<src, dst, head, index, ahead, mode, intervalId, elapsed,
                   budget, elsewhere, wvars, xvars>>

\* Time passes while the interval timer is armed.
SyncTick ==
    /\ proc = "running"
    /\ intervalId
    /\ elapsed < CHECK_INTERVAL_MINUTES
    /\ elapsed' = Min(elapsed + TickMinutes, CHECK_INTERVAL_MINUTES)
    /\ UNCHANGED <<src, dst, head, index, ahead, mode, proc, exitCode,
                   intervalId, runs, sh, budget, elsewhere, wvars, xvars>>

\* The user writes or deletes a file of the vault; userLast is, for every
\* file the user has written and not deleted since, what the user last wrote.
UserChanged(userLast) ==
    /\ runs' = [r \in Slots |->
                  IF runs[r].pc = "free" THEN runs[r]
                  ELSE [runs[r] EXCEPT !.dirty = TRUE]]
    /\ budget.userOps > 0
    /\ budget' = [budget EXCEPT !.userOps = @ - 1]
    /\ sh' = [sh EXCEPT !.quiet = FALSE, !.userLast = userLast]

UserWrite(f, content) ==
    /\ IF f \in DOMAIN src THEN src[f] # content ELSE TRUE
    /\ src' = writeFile(src, f, content)
    /\ UserChanged(writeFile(sh.userLast, f, content))
    /\ UNCHANGED <<dst, head, index, ahead, mode, proc, exitCode, intervalId,
                   elapsed, elsewhere, wvars, xvars>>

UserDelete(f) ==
    /\ f \in DOMAIN src
    /\ src' = unlink(src, f)
    /\ UserChanged(unlink(sh.userLast, f))
    /\ UNCHANGED <<dst, head, index, ahead, mode, proc, exitCode, intervalId,
                   elapsed, elsewhere, wvars, xvars>>

SyncNext ==
    \/ \E m \in {"once", "watch"} : Launch(m)
    \/ \E r \in Slots, ok \in BOOLEAN : Mkdir(r, ok)
    \/ \E r \in Slots, ok \in BOOLEAN : ReaddirSrc(r, ok)
    \/ \E r \in Slots, ok \in BOOLEAN : ReadFile(r, ok)
    \/ \E r \in Slots, ok \in BOOLEAN : WriteSrc(r, ok)
    \/ \E r \in Slots, ok \in BOOLEAN : WriteDst(r, ok)
    \/ \E r \in Slots, ok \in BOOLEAN : ReaddirDst(r, ok)
    \/ \E r \in Slots, ok \in BOOLEAN : Unlink(r, ok)
    \/ \E r \in Slots, ok \in BOOLEAN : GitStatus(r, ok)
    \/ \E r \in Slots, ok \in BOOLEAN : GitAdd(r, ok)
    \/ \E r \in Slots, ok \in BOOLEAN : GitCommit(r, ok)
    \/ \E r \in Slots, ok \in BOOLEAN : GitPush(r, ok)
    \/ IntervalFire
    \/ SyncTick
    \/ \E f \in UserFiles, content \in Contents : UserWrite(f, content)
    \/ \E f \in UserFiles : UserDelete(f)

\* The sync process alone: the watcher's variables stay as they start.
WatcherIdle ==
    /\ now = 0
    /\ timers = {}
    /\ syncTimeout = NoTimer
    /\ syncInFlight = FALSE
    /\ lastReason = "startup"
    /\ wpc = "idle"
    /\ wstate = "exited"
    /\ fsQueue = <<>>
    /\ sigPending = FALSE
    /\ console = "none"
    /\ wh = WhInit

\* The watcher alone: no sync process is started.
SyncIdle ==
    /\ src = EmptyDir
    /\ dst = EmptyDir
    /\ head = [s |-> EmptyDir, d |-> EmptyDir]
    /\ index = head
    /\ ahead = FALSE
    /\ elsewhere = ElsewhereEdited
    /\ mode = "once"
    /\ proc = "notstarted"
    /\ exitCode = NoCode
    /\ intervalId = FALSE
    /\ elapsed = 0
    /\ runs = [r \in Slots |-> FreeRun]
    /\ budget = [runs |-> 0, userOps |-> 0]
    /\ sh = ShInit

Init == SyncInit /\ WatcherIdle /\ NormIdle /\ NowPlayingIdle

Spec == Init /\ [][SyncNext]_vars

\* The interval strategy alone, long enough for a tick to come while the run
\* of the tick before is still going: node scripts/sync-journal.js --watch on
\* a vault nobody edits.
MaxIntervalRuns == 3

IntervalInit ==
    /\ src = (A_md :> Plain)
    /\ dst \in {EmptyDir, (B_md :> WithFm)}
    /\ head = [s |-> EmptyDir, d |-> EmptyDir]
    /\ index = head
    /\ ahead = FALSE
    /\ elsewhere = ElsewhereEdited
    /\ mode = "watch"
    /\ proc = "notstarted"
    /\ exitCode = NoCode
    /\ intervalId = FALSE
    /\ elapsed = 0
    /\ runs = [r \in Slots |-> FreeRun]
    /\ budget = [runs |-> MaxIntervalRuns, userOps |-> 0]
    /\ sh = ShInit

IntervalNext ==
    \/ Launch("watch")
    \/ \E r \in Slots, ok \in BOOLEAN : Mkdir(r, ok)
    \/ \E r \in Slots, ok \in BOOLEAN : ReaddirSrc(r, ok)
    \/ \E r \in Slots, ok \in BOOLEAN : ReadFile(r, ok)
    \/ \E r \in Slots, ok \in BOOLEAN : WriteSrc(r, ok)
    \/ \E r \in Slots, ok \in BOOLEAN : WriteDst(r, ok)
    \/ \E r \in Slots, ok \in BOOLEAN : ReaddirDst(r, ok)
    \/ \E r \in Slots, ok \in BOOLEAN : Unlink(r, ok)
    \/ \E r \in Slots, ok \in BOOLEAN : GitStatus(r, ok)
    \/ \E r \in Slots, ok \in BOOLEAN : GitAdd(r, ok)
    \/ \E r \in Slots, ok \in BOOLEAN : GitCommit(r, ok)
    \/ \E r \in Slots, ok \in BOOLEAN : GitPush(r, ok)
    \/ IntervalFire
    \/ \E sig \in {"SIGINT", "SIGTERM"} : Signal(sig)
    \/ \E sig \in {"SIGINT", "SIGTERM"} : SignalDefault(sig)
    \/ SyncTick

\* One run on directories whose names try the filter: an upper-case suffix,
\* a suffix that only begins with .md, a name without a suffix.
C_MD == <<"c", ".", "M", "D">>
D_mdx == <<"d", ".", "m", "d", "x">>

FilterSrcNames == {A_md, C_MD, D_mdx}
FilterDstNames == {B_md, C_MD, D_mdx, N_txt}

FilterInit ==
    /\ src \in {[f \in S |-> Plain] : S \in SUBSET FilterSrcNames}
    /\ dst \in {[f \in S |-> WithFm] : S \in SUBSET FilterDstNames}
    /\ head = [s |-> EmptyDir, d |-> EmptyDir]
    /\ index = head
    /\ ahead = FALSE
    /\ elsewhere = ElsewhereEdited
    /\ mode = "once"
    /\ proc = "notstarted"
    /\ exitCode = NoCode
    /\ intervalId = FALSE
    /\ elapsed = 0
    /\ runs = [r \in Slots |-> FreeRun]
    /\ budget = [runs |-> 1, userOps |-> 0]
    /\ sh = ShInit

FilterNext ==
    \/ Launch("once")
    \/ \E r \in Slots, ok \in BOOLEAN : Mkdir(r, ok)
    \/ \E r \in Slots, ok \in BOOLEAN : ReaddirSrc(r, ok)
    \/ \E r \in Slots, ok \in BOOLEAN : ReadFile(r, ok)
    \/ \E r \in Slots, ok \in BOOLEAN : WriteSrc(r, ok)
    \/ \E r \in Slots, ok \in BOOLEAN : WriteDst(r, ok)
    \/ \E r \in Slots, ok \in BOOLEAN : ReaddirDst(r, ok)
    \/ \E r \in Slots, ok \in BOOLEAN : Unlink(r, ok)
    \/ \E r \in Slots, ok \in BOOLEAN : GitStatus(r, ok)
    \/ \E r \in Slots, ok \in BOOLEAN : GitAdd(r, ok)
    \/ \E r \in Slots, ok \in BOOLEAN : GitCommit(r, ok)
    \/ \E r \in Slots, ok \in BOOLEAN : GitPush(r, ok)

FilterSpecInit == FilterInit /\ WatcherIdle /\ NormIdle /\ NowPlayingIdle

FilterSpec == FilterSpecInit /\ [][FilterNext]_vars

IntervalSpecInit == IntervalInit /\ WatcherIdle /\ NormIdle /\ NowPlayingIdle

IntervalSpec == IntervalSpecInit /\ [][IntervalNext]_vars

----------------------------------------------------------------------------
(* The watcher alone *)

WatcherNext ==
    \/ \E kind \in EventKinds : FsChange(kind)
    \/ OnFsEvent
    \/ TimerFire
    \/ \E outcome \in {"ok", "throw"} : ExecSyncEnd(outcome)
    \/ Sigint
    \/ OnSigint
    \/ CloseResolved
    \/ Tick

WatcherSpecInit == WatcherInit /\ SyncIdle /\ NormIdle /\ NowPlayingIdle

WatcherSpec == WatcherSpecInit /\ [][WatcherNext]_vars

----------------------------------------------------------------------------
(* The watcher with the command it runs.  triggerSync calls                *)
(* execSync("pnpm sync-journal") (line 40); JOURNAL_AUTOMATION.md (lines   *)
(* 27-45) documents pnpm sync-journal as the continuous sync, which is     *)
(* node scripts/sync-journal.js --watch, and pnpm sync-journal:once as the *)
(* one-shot.                                                               *)

\* execSync starts the subprocess.
Spawn ==
    /\ wpc = "execSync"
    /\ proc = "notstarted"
    /\ Launch("watch")

\* The subprocess has ended: execSync returns when it exited with code 0
\* and throws otherwise; then the catch and the finally (lines 41-47).
ChildReturns ==
    /\ wstate # "exited"
    /\ wpc = "execSync"
    /\ proc = "exited"
    /\ console' = IF exitCode = 0 THEN "finished" ELSE "error"
    /\ syncInFlight' = FALSE
    /\ scheduleSync("post-sync")
    /\ wpc' = "idle"
    /\ wh' = WhRunEnd(IF exitCode = 0 THEN "ok" ELSE "throw")
    /\ proc' = "notstarted"
    /\ UNCHANGED <<now, wstate, fsQueue, sigPending>>
    /\ UNCHANGED <<src, dst, head, index, ahead, elsewhere, mode, exitCode,
                   intervalId, elapsed, runs, budget, sh, xvars>>

\* What the two processes do by themselves.
WatchedProgram ==
    \/ TimerFire
    \/ Tick
    \/ OnSigint
    \/ CloseResolved
    \/ Spawn
    \/ ChildReturns
    \/ \E r \in Slots, ok \in BOOLEAN : Mkdir(r, ok)
    \/ \E r \in Slots, ok \in BOOLEAN : ReaddirSrc(r, ok)
    \/ \E r \in Slots, ok \in BOOLEAN : ReadFile(r, ok)
    \/ \E r \in Slots, ok \in BOOLEAN : WriteSrc(r, ok)
    \/ \E r \in Slots, ok \in BOOLEAN : WriteDst(r, ok)
    \/ \E r \in Slots, ok \in BOOLEAN : ReaddirDst(r, ok)
    \/ \E r \in Slots, ok \in BOOLEAN : Unlink(r, ok)
    \/ \E r \in Slots, ok \in BOOLEAN : GitStatus(r, ok)
    \/ \E r \in Slots, ok \in BOOLEAN : GitAdd(r, ok)
    \/ \E r \in Slots, ok \in BOOLEAN : GitCommit(r, ok)
    \/ \E r \in Slots, ok \in BOOLEAN : GitPush(r, ok)
    \/ IntervalFire
    \/ SyncTick

\* What is done to them: Ctrl+C in the watcher's terminal, a signal sent to
\* the subprocess.
WatchedSignals ==
    \/ Sigint
    \/ \E sig \in {"SIGINT", "SIGTERM"} : Signal(sig)
    \/ \E sig \in {"SIGINT", "SIGTERM"} : SignalDefault(sig)

WatchedNext ==
    \/ WatchedProgram
    \/ WatchedSignals

\* The subprocess may make two runs: its first and the one of a tick.
MaxWatchedRuns == 2

WatchedSyncInit ==
    /\ src = (A_md :> Plain)
    /\ dst = (B_md :> WithFm)
    /\ head = [s |-> EmptyDir, d |-> EmptyDir]
    /\ index = head
    /\ ahead = FALSE
    /\ elsewhere = ElsewhereEdited
    /\ mode = "watch"
    /\ proc = "notstarted"
    /\ exitCode = NoCode
    /\ intervalId = FALSE
    /\ elapsed = 0
    /\ runs = [r \in Slots |-> FreeRun]
    /\ budget = [runs |-> MaxWatchedRuns, userOps |-> 0]
    /\ sh = ShInit

WatchedInit == WatcherInit /\ WatchedSyncInit /\ NormIdle /\ NowPlayingIdle

\* Both processes keep running while they have something to do; nobody has
\* to send a signal.
WatchedSpec == WatchedInit /\ [][WatchedNext]_vars /\ WF_vars(WatchedProgram)

----------------------------------------------------------------------------
(* ensureFrontmatter alone, the now-playing endpoint alone *)

NormalizeInit == NormInputs /\ NowPlayingIdle /\ WatcherIdle /\ SyncIdle

NormalizeSpec == NormalizeInit /\ [][NormalizeNext]_vars

NowPlayingInit == NowPlayingIdle /\ NormIdle /\ WatcherIdle /\ SyncIdle

NowPlayingSpec == NowPlayingInit /\ [][NowPlayingNext]_vars

----------------------------------------------------------------------------
(* Properties of the watcher (WatcherSpec) *)

\* The listener step: a queued file event is taken off the queue.
FsEventHandled == Len(fsQueue') < Len(fsQueue)

\* The step in which execSync returns or throws.
RunCompleted == wpc = "execSync" /\ wpc' = "idle"

\* C1: at most one sync subprocess runs at any time, and a file event, also
\* one that reached the OS while syncInFlight was true, starts no run when its
\* listener executes: it leaves syncInFlight and the thread alone and arms the
\* debounce timer for now + 30 minutes.
C1_OneRunEventsOnlySchedule ==
    /\ [](wh.active <= 1)
    /\ [][FsEventHandled =>
            /\ wh'.active = wh.active
            /\ syncInFlight' = syncInFlight
            /\ wpc' = wpc
            /\ Armed(timers', now + DEBOUNCE_MINUTES)]_vars

\* An event that occurred during a run has been handled: no run is active and
\* the timer waits for now + 30.
C1_Witness ==
    /\ wh.lastInFlight
    /\ wh.lastEventAt = now
    /\ wh.active = 0
    /\ ~syncInFlight
    /\ Armed(timers, now + DEBOUNCE_MINUTES)

\* C2: a burst of file events (each less than 30 minutes after the one
\* before) leads to exactly one run, started 30 minutes after the last event
\* of the burst: never two runs for one burst, never a run timed from an
\* earlier event, and once 30 minutes have passed since the last event the
\* run has started.
C2_DebounceCoalescing ==
    /\ wh.evRuns <= 1
    /\ (wh.runBy \in FileReasons => wh.runDelay = DEBOUNCE_MINUTES)
    /\ (/\ wstate = "running"
        /\ wpc = "idle"
        /\ wh.lastEventAt # NoTime
        /\ now > wh.lastEventAt + DEBOUNCE_MINUTES
        => wh.evRuns = 1)

\* The run of a burst of at least two events is in progress.
C2_Witness ==
    /\ wh.burst >= 2
    /\ wpc = "execSync"
    /\ wh.runBy \in FileReasons
    /\ wh.evRuns = 1
    /\ now = wh.lastEventAt + DEBOUNCE_MINUTES

\* C4: when a run completes, by return or by throw, syncInFlight is false
\* again, a timer is armed for now + 30 minutes and the process is where it
\* was; a throw is logged.
C4_CompletionRearms ==
    [][RunCompleted =>
         /\ syncInFlight' = FALSE
         /\ Armed(timers', now + DEBOUNCE_MINUTES)
         /\ wstate' = wstate
         /\ (wh'.outcome = "throw" => console' = "error")]_vars

\* A run has thrown: the error is on the console and the watcher goes on.
C4_Witness ==
    /\ wh.outcome = "throw"
    /\ console = "error"
    /\ wstate = "running"
    /\ ~syncInFlight
    /\ Armed(timers, now + DEBOUNCE_MINUTES)

\* C5: after file changes and 30 quiet minutes the sync runs once: no further
\* run starts before another file change is observed.
C5_RunsOnceUntilNextChange ==
    wh.lastEventAt # NoTime => wh.allRuns <= 1

----------------------------------------------------------------------------
(* Properties of the sync pipeline (Spec, IntervalSpec) *)

\* The run in slot r has left the mirror behind and is about to query git.
MirrorDone(r) == runs[r].pc = "status"

\* C6: when the mirror of a run has finished without error and the user has
\* changed nothing since the run started, the destination holds exactly the
\* source's .md files, each with the normalized content of the source file
\* the run started from: missing ones created, present ones overwritten,
\* stale ones deleted.
C6_MirrorComplete ==
    \A r \in Slots :
        MirrorDone(r) /\ ~runs[r].dirty =>
            /\ MarkdownNames(dst) = MarkdownNames(src)
            /\ \A f \in MarkdownNames(src) :
                 /\ f \in DOMAIN runs[r].src0
                 /\ dst[f] = ensureFrontmatter(f, runs[r].src0[f]).content

\* A mirror has finished that created a.md and deleted the stale b.md.
C6_Witness ==
    \E r \in Slots :
        /\ MirrorDone(r)
        /\ ~runs[r].dirty
        /\ A_md \in DOMAIN src
        /\ A_md \notin DOMAIN runs[r].dst0
        /\ B_md \in DOMAIN runs[r].dst0
        /\ B_md \notin DOMAIN src
        /\ DOMAIN dst \cap {A_md, B_md} = {A_md}

\* The run in slot r started after another run had finished, with no user
\* change since that run started.
InSuccession(r) ==
    /\ runs[r].prev.outcome \notin {"none", "overlap"}
    /\ runs[r].prev.quiet
    /\ ~runs[r].dirty

\* The change detector of the run in slot r has reported changes.
ReportedChanges(r) ==
    \/ runs[r].pc \in {"add", "commit", "push"}
    \/ "add" \in Range(runs[r].ops)

\* C7 as stated: a run that follows another with no file change in between
\* finds no changes and issues no add, commit or push.
C7_SecondRunFindsNothing ==
    \A r \in Slots : InSuccession(r) => ~ReportedChanges(r)

\* C7 as amended: the same, when the run before got as far as its commit
\* (it pushed, or failed in the push) or itself found no changes.
C7_SecondRunAfterCommit ==
    \A r \in Slots :
        InSuccession(r) /\ runs[r].prev.outcome \in {"synced", "nochanges", "push"}
            => /\ ~ReportedChanges(r)
               /\ runs[r].pc = "done" /\ runs[r].result # "error"
                    => runs[r].result = "nochanges" /\ runs[r].ops = <<"status">>

\* A run after a run that committed and pushed has ended with no changes.
C7_Witness ==
    \E r \in Slots :
        /\ InSuccession(r)
        /\ runs[r].prev.outcome = "synced"
        /\ runs[r].pc = "done"
        /\ runs[r].result = "nochanges"

\* C8: no tick of the interval starts a run while an earlier run is unfinished.
C8_RunsNeverOverlap ==
    Cardinality({r \in Slots : Active(r)}) <= 1

FailSteps ==
    {"mkdir", "readdirSrc", "readFile", "writeSrc", "writeDst", "readdirDst",
     "unlink", "status", "add", "commit", "push"}

\* C9: a one-shot process runs the pipeline once and ends as soon as it is
\* over, with code 0 after a run that synced or found no changes and with
\* code 1 after a run in which a step failed; a --watch process is still
\* running after any failure.
C9_ExitCodes ==
    /\ mode = "once" /\ proc = "exited" =>
         /\ sh.procRuns = 1
         /\ \A r \in Slots : ~Active(r)
         /\ exitCode \in {0, 1}
         /\ exitCode = 0 <=> sh.lastOutcome \in {"synced", "nochanges"}
         /\ exitCode = 1 <=> sh.lastOutcome \in FailSteps
    /\ mode = "once" /\ proc = "running" =>
         /\ sh.procRuns = 1
         /\ Cardinality({r \in Slots : Active(r)}) = 1
    /\ mode = "watch" /\ proc # "notstarted" =>
         /\ proc = "running"
         /\ exitCode = NoCode

\* A one-shot process has ended with code 1 after git commit failed.
C9_Witness ==
    /\ mode = "once"
    /\ proc = "exited"
    /\ exitCode = 1
    /\ sh.lastOutcome = "commit"

\* The step in which the run in slot r returns without error.
Completes(r) ==
    /\ runs[r].pc # "done"
    /\ runs'[r].pc = "done"
    /\ runs'[r].result \in {"synced", "nochanges"}

\* Every .md file that lacked frontmatter when the run in slot r started holds
\* the injected frontmatter followed by what it held, and every .md file of
\* the source equals its destination copy and begins with the delimiter.
NormalizedUpstream(r) ==
    /\ \A f \in MarkdownNames(runs[r].src0) :
         ~startsWith(runs[r].src0[f], Delimiter) =>
            /\ f \in DOMAIN src
            /\ src[f] = frontmatterOf(basename(f, DotMd)) \o runs[r].src0[f]
    /\ \A f \in MarkdownNames(src) :
         /\ f \in DOMAIN dst
         /\ src[f] = dst[f]
         /\ startsWith(src[f], Delimiter)

\* C10 as stated: when a sync pass finishes without error the source is
\* normalized and equal to the destination.
C10_NormalizedAtCompletion ==
    [][\A r \in Slots : Completes(r) => NormalizedUpstream(r)']_vars

\* C10 as amended: the same, when the user has changed no source file since
\* the pass started.
C10_NormalizedWhenUndisturbed ==
    [][\A r \in Slots :
         Completes(r) /\ ~runs'[r].dirty => NormalizedUpstream(r)']_vars

\* A pass nobody disturbed is over, and a.md, which had no frontmatter, has
\* it in the source and in the destination.
C10_Witness ==
    \E r \in Slots :
        /\ runs[r].pc = "done"
        /\ runs[r].result \in {"synced", "nochanges"}
        /\ ~runs[r].dirty
        /\ A_md \in DOMAIN runs[r].src0
        /\ runs[r].src0[A_md] = Plain
        /\ A_md \in DOMAIN src /\ A_md \in DOMAIN dst
        /\ src[A_md] = frontmatterOf(<<"a">>) \o Plain
        /\ dst[A_md] = src[A_md]

----------------------------------------------------------------------------
(* Properties of ensureFrontmatter (NormalizeSpec) and of its use (Spec) *)

\* The filename without .md.
Stem(filename) ==
    IF endsWith(filename, DotMd)
    THEN SubSeq(filename, 1, Len(filename) - Len(DotMd))
    ELSE filename

RECURSIVE Unlines(_)
\* Every line followed by a newline.
Unlines(lines) ==
    IF lines = <<>> THEN <<>>
    ELSE Head(lines) \o <<"\n">> \o Unlines(Tail(lines))

\* The header the documentation describes, line by line, the blank line last.
HeaderLines(stem) ==
    << <<"-", "-", "-">>,
       <<"t", "i", "t", "l", "e", ":", " ", "\"">>
          \o <<"J", "o", "u", "r", "n", "a", "l", " ", "-", " ">> \o stem
          \o <<"\"">>,
       <<"d", "a", "t", "e", ":", " ", "\"">> \o stem \o <<"\"">>,
       <<"d", "e", "s", "c", "r", "i", "p", "t", "i", "o", "n", ":", " ", "\"">>
          \o <<"D", "a", "i", "l", "y", " ", "j", "o", "u", "r", "n", "a", "l",
               " ", "e", "n", "t", "r", "y">> \o <<"\"">>,
       <<"-", "-", "-">>,
       <<>> >>

\* C11: for every filename and every content that does not begin with ---,
\* ensureFrontmatter returns changed = true and the header with the title
\* "Journal - <stem>", the date "<stem>" and the description "Daily journal
\* entry", a blank line, then the content as it was; the call can always be
\* made and returns, whatever the name and also for the empty content.
C11_FrontmatterInjected ==
    /\ ~norm.called => ENABLED Normalize
    /\ norm.called /\ ~startsWith(norm.rawContent, Delimiter) =>
         /\ norm.changed = TRUE
         /\ norm.content =
              Unlines(HeaderLines(Stem(norm.filename))) \o norm.rawContent

\* ensureFrontmatter has returned for a name that does not end in .md and the
\* empty content.
C11_Witness ==
    /\ norm.called
    /\ norm.filename = <<"a", "d">>
    /\ norm.rawContent = <<>>
    /\ norm.changed
    /\ norm.content = Unlines(HeaderLines(<<"a", "d">>))

\* The step in which the run in slot r has read a file whose content begins
\* with the delimiter.
ReadsFrontmatter(r) ==
    /\ runs[r].pc = "readFile"
    /\ runs'[r].pc \in {"writeSrc", "writeDst"}
    /\ startsWith(src[File(r)], Delimiter)

\* C12: for content that begins with ---, ensureFrontmatter returns the
\* content as it is with changed = false, and the sync goes on to write the
\* destination without writing the source file: a run writes a source file
\* only with changed = true, and nothing but such a write or the user changes
\* the source directory.
C12_PassThrough ==
    [][/\ \A r \in Slots :
            /\ ReadsFrontmatter(r) =>
                 /\ runs'[r].content = src[File(r)]
                 /\ runs'[r].changed = FALSE
                 /\ runs'[r].pc = "writeDst"
            /\ runs'[r].pc = "writeSrc" => runs'[r].changed
       /\ src' # src /\ budget'.userOps = budget.userOps =>
            \E r \in Slots :
               /\ runs[r].pc = "writeSrc"
               /\ runs[r].changed
               /\ src' = writeFile(src, File(r), runs[r].content)]_vars

\* A run has read b.md, which begins with ---, and is about to write the
\* destination with the same content.
C12_Witness ==
    \E r \in Slots :
        /\ runs[r].pc = "writeDst"
        /\ File(r) = B_md
        /\ ~runs[r].changed
        /\ B_md \in DOMAIN src
        /\ src[B_md] = WithFm
        /\ runs[r].content = WithFm

\* C21: ensureFrontmatter applied to what it returned returns the same
\* content with changed = false, so the next pass over the file does not
\* write the source file.
C21_NormalizationIdempotent ==
    norm.again => norm.content2 = norm.content /\ ~norm.changed2

\* The first pass put the frontmatter before the content of a.md, the second
\* left it as it was.
C21_Witness ==
    /\ norm.again
    /\ norm.filename = A_md
    /\ norm.rawContent = <<"x">>
    /\ norm.changed
    /\ norm.content = frontmatterOf(<<"a">>) \o <<"x">>
    /\ norm.content2 = norm.content
    /\ ~norm.changed2

----------------------------------------------------------------------------
(* Properties of the shutdown (IntervalSpec) *)

\* C13: a --watch process ends only by SIGINT or SIGTERM, and one that a
\* signal has ended has cleared its interval timer and exited with code 0.
C13_InterruptExitsCleanly ==
    /\ mode = "watch" /\ proc = "exited" => sh.exitBy \in {"SIGINT", "SIGTERM"}
    /\ sh.exitBy \in {"SIGINT", "SIGTERM"} =>
         /\ proc = "exited"
         /\ ~intervalId
         /\ exitCode = 0

----------------------------------------------------------------------------
(* Further properties of the sync pipeline (Spec) *)

\* The run in slot r is over, without error and with nobody else having
\* changed the directories since it started.
FinishedUndisturbed(r) ==
    /\ runs[r].pc = "done"
    /\ runs[r].result \in {"synced", "nochanges"}
    /\ ~runs[r].dirty

\* C14: after a sync every file of the journal directory that is no .md file
\* (an image, an attachment) is in the content directory with the same
\* content.
C14_AttachmentsCopied ==
    \A r \in Slots :
        FinishedUndisturbed(r) =>
            \A f \in (DOMAIN src) \ MarkdownNames(src) :
                /\ f \in DOMAIN dst
                /\ dst[f] = src[f]

\* The steps of the mirror, in program order, and the git commands.
CopyPcs == {"readFile", "writeSrc", "writeDst"}
MirrorPcs == {"mkdir", "readdirSrc", "readdirDst", "unlink"} \cup CopyPcs
Commands == <<"status", "add", "commit", "push">>

\* Every listed file has been copied.
CopiesDone(r) == runs[r].i > Len(runs[r].markdownFiles)

\* Where the run in slot r is agrees with what it has done so far.
InOrder(r) ==
    /\ \E n \in 0..Len(Commands) : runs[r].ops = SubSeq(Commands, 1, n)
    /\ runs[r].pc \in MirrorPcs => runs[r].ops = <<>>
    /\ runs[r].pc \in CopyPcs => runs[r].destFiles = <<>>
    /\ runs[r].pc \in {"readdirDst", "unlink"} => CopiesDone(r)
    /\ runs[r].pc \in GitPcs => CopiesDone(r) /\ runs[r].destFiles = <<>>
    /\ runs[r].pc = "status" => runs[r].ops = <<>>
    /\ runs[r].pc = "add" => runs[r].ops = <<"status">>
    /\ runs[r].pc = "commit" => runs[r].ops = <<"status", "add">>
    /\ runs[r].pc = "push" => runs[r].ops = <<"status", "add", "commit">>

\* C16: within one run the steps are strictly ordered: the mirror (all
\* copies, then all stale deletions) is complete before git status is
\* issued, git status before stage, commit and push, and these three are
\* issued only when git status printed something; the content directory
\* changes only in the mirror of a run that has issued no command yet, and
\* the index and the commits only in a stage, commit or push.
C16_StepsInOrder ==
    [][/\ \A r \in Slots :
            /\ InOrder(r)'
            /\ runs'[r].pc = "add" /\ runs[r].pc # "add" =>
                 runs[r].pc = "status" /\ StatusNonEmpty
            /\ runs[r].pc = "status" /\ runs'[r].pc = "done"
                 /\ runs'[r].result # "error" =>
                     /\ ~StatusNonEmpty
                     /\ runs'[r].ops = <<"status">>
            /\ Len(runs'[r].ops) > Len(runs[r].ops) /\ Len(runs[r].ops) > 0 =>
                 runs[r].pc \in {"add", "commit", "push"}
       /\ dst' # dst /\ budget'.userOps = budget.userOps =>
            \E r \in Slots :
               /\ runs[r].pc \in {"writeDst", "unlink"}
               /\ runs[r].ops = <<>>
       /\ <<index, head, ahead>>' # <<index, head, ahead>> =>
            \E r \in Slots : runs[r].pc \in {"add", "commit", "push"}]_vars

\* A run that copied a file and deleted a stale one is about to stage.
C16_Witness ==
    \E r \in Slots :
        /\ runs[r].pc = "add"
        /\ runs[r].ops = <<"status">>
        /\ Len(runs[r].markdownFiles) > 0
        /\ StaleFiles(runs[r].dst0, runs[r].markdownFiles) # {}
        /\ StaleFiles(dst, runs[r].markdownFiles) = {}

\* The run in slot r fails in this step while it processes a source file.
FailsInCopy(r) ==
    /\ runs[r].pc \in CopyPcs
    /\ runs'[r].pc = "done"

\* The files the run in slot r has copied so far.
Copied(r) == {runs[r].markdownFiles[k] : k \in 1..(runs[r].i - 1)}

\* C17: an I/O error while a source file is processed ends the run there
\* with nothing undone: the step changes no directory and nothing in git,
\* the files the run wrote before are as it wrote them, no file of the
\* content directory has been deleted, and the run has issued no status,
\* stage, commit or push; the run takes no step after it.
C17_MirrorFailureAborts ==
    [][\A r \in Slots :
          /\ FailsInCopy(r) =>
               /\ runs'[r].result = "error"
               /\ runs'[r].failedAt = runs[r].pc
               /\ runs'[r].ops = <<>>
               /\ <<src, dst>>' = <<src, dst>>
               /\ <<head, index, ahead>>' = <<head, index, ahead>>
               /\ ~runs[r].dirty =>
                    /\ DOMAIN runs[r].dst0 \subseteq DOMAIN dst'
                    /\ \A f \in Copied(r) :
                          LET e == ensureFrontmatter(f, runs[r].src0[f])
                          IN /\ src'[f] = e.content
                             /\ dst'[f] = e.content
          /\ runs[r].pc = "done" /\ runs[r].failedAt \in CopyPcs =>
               \/ runs'[r] = runs[r]
               \/ runs'[r].pc = "mkdir"
               \/ runs'[r] = [runs[r] EXCEPT !.dirty = TRUE]]_vars

\* A run that added the frontmatter to a.md in the vault failed to write the
\* copy: the vault keeps the added frontmatter, the stale b.md is still in the
\* content directory and no command was issued.
C17_Witness ==
    \E r \in Slots :
        /\ runs[r].pc = "done"
        /\ runs[r].failedAt = "writeDst"
        /\ ~runs[r].dirty
        /\ runs[r].ops = <<>>
        /\ A_md \in DOMAIN src
        /\ src[A_md] = ensureFrontmatter(A_md, Plain).content
        /\ runs[r].src0[A_md] = Plain
        /\ B_md \notin DOMAIN src
        /\ B_md \in DOMAIN dst
        /\ dst = runs[r].dst0

\* The run in slot r issues a command in this step.
Issues(r, command) ==
    /\ runs[r].pc = command
    /\ runs'[r].ops = Append(runs[r].ops, command)

\* The run in slot r has issued the command.
HasIssued(r, command) == command \in Range(runs[r].ops)

\* C20: a run stages, commits and pushes in that order, each at most once;
\* staging puts the two journal directories as they are in the work tree
\* into the index and nothing of the rest of the repository; a stage that
\* fails ends the run without commit and push, a commit that fails ends it
\* without push, and a failed command changes nothing in git.
C20_PublishOnceInOrder ==
    [][/\ \A r \in Slots :
            /\ \A k, l \in 1..Len(runs'[r].ops) :
                  k # l => runs'[r].ops[k] # runs'[r].ops[l]
            /\ Issues(r, "commit") => runs[r].ops = <<"status", "add">>
            /\ Issues(r, "push") => runs[r].ops = <<"status", "add", "commit">>
            /\ runs'[r].ops # runs[r].ops /\ runs'[r].pc # "mkdir" =>
                  \E c \in Range(Commands) : Issues(r, c)
            /\ runs[r].pc \in {"add", "commit", "push"}
                 /\ runs'[r].pc = "done" /\ runs'[r].result = "error" =>
                     /\ runs'[r].failedAt = runs[r].pc
                     /\ <<index, head, ahead, elsewhere>>'
                            = <<index, head, ahead, elsewhere>>
            /\ runs'[r].pc = "done" /\ runs'[r].failedAt = "add" =>
                  ~HasIssued(r, "commit")' /\ ~HasIssued(r, "push")'
            /\ runs'[r].pc = "done" /\ runs'[r].failedAt = "commit" =>
                  ~HasIssued(r, "push")'
       /\ index' # index =>
            /\ \E r \in Slots : Issues(r, "add")
            /\ index' = Worktree
       /\ elsewhere'.index = elsewhere.index
      ]_vars

\* A run whose commit failed after it had staged a change: the index holds
\* the two directories, the edits elsewhere are not staged, and there was no
\* push.
C20_Witness ==
    \E r \in Slots :
        /\ runs[r].pc = "done"
        /\ runs[r].failedAt = "commit"
        /\ runs[r].ops = <<"status", "add", "commit">>
        /\ ~runs[r].dirty
        /\ index = Worktree
        /\ index # head
        /\ elsewhere.work # elsewhere.index
        /\ ~ahead

\* The run in slot r follows, with no file change in between, a run that
\* committed and whose push failed.
AfterFailedPush(r) == InSuccession(r) /\ runs[r].prev.outcome = "push"

\* C24: a run that follows, with no file change in between, a run whose push
\* failed after its commit finds an empty status, reports no changes and
\* issues no stage, commit or push, and the commit is still unpushed; a
\* commit stops being unpushed only in the push of a run that has made a
\* commit of its own.
C24_FailedPushNotRetried ==
    [][/\ \A r \in Slots :
            AfterFailedPush(r)' =>
               /\ ahead'
               /\ ~ReportedChanges(r)'
               /\ runs'[r].pc = "done" /\ runs'[r].result # "error" =>
                    /\ runs'[r].result = "nochanges"
                    /\ runs'[r].ops = <<"status">>
       /\ ahead /\ ~ahead' =>
            \E r \in Slots :
               /\ Issues(r, "push")
               /\ runs[r].ops = <<"status", "add", "commit">>
               /\ ~AfterFailedPush(r)]_vars

\* The run after the failed push has ended with no changes and the commit is
\* still unpushed.
C24_Witness ==
    \E r \in Slots :
        /\ AfterFailedPush(r)
        /\ runs[r].pc = "done"
        /\ runs[r].result = "nochanges"
        /\ runs[r].ops = <<"status">>
        /\ ahead

\* The run in slot r writes a source file back in this step.
WritesBack(r) == runs[r].pc = "writeSrc" /\ runs'[r].pc = "writeDst"

\* The file holds something else than what the user last wrote to it.
UserContentLost(f) ==
    /\ f \in DOMAIN sh.userLast
    /\ f \in DOMAIN src
    /\ src[f] # sh.userLast[f]

\* C25: a run that has read a source file without frontmatter keeps the
\* frontmatter followed by what it read and later writes that to the file,
\* whatever the file holds by then: what the user wrote to the file between
\* the read and the write-back is overwritten.
C25_WriteBackOverwrites ==
    [][\A r \in Slots :
          /\ runs[r].pc = "readFile" /\ runs'[r].pc = "writeSrc" =>
               runs'[r].content
                  = frontmatterOf(basename(File(r), DotMd)) \o src[File(r)]
          /\ runs[r].pc = "writeSrc" /\ runs'[r].pc = "writeSrc" =>
               /\ runs'[r].content = runs[r].content
               /\ runs'[r].markdownFiles = runs[r].markdownFiles
               /\ runs'[r].i = runs[r].i
          /\ WritesBack(r) =>
               /\ File(r) \in DOMAIN src'
               /\ src'[File(r)] = runs[r].content
               /\ File(r) \in DOMAIN sh.userLast
                    /\ sh.userLast[File(r)] # runs[r].content =>
                        UserContentLost(File(r))']_vars

\* The user wrote a.md after a run had read it; the run has written its own
\* content back and the file no longer holds what the user wrote.
C25_Witness ==
    \E r \in Slots :
        /\ runs[r].pc = "writeDst"
        /\ File(r) = A_md
        /\ A_md \in DOMAIN runs[r].src0
        /\ runs[r].src0[A_md] = Plain
        /\ sh.userLast = (A_md :> WithFm)
        /\ A_md \in DOMAIN src
        /\ src[A_md] = frontmatterOf(<<"a">>) \o Plain
        /\ UserContentLost(A_md)

\* The step is a run's and not the user's.
RunStep == budget'.userOps = budget.userOps

\* C29: a run never deletes or creates a file of the source directory and
\* never writes a source file whose content begins with the delimiter: a
\* run's step changes the source directory only by putting the frontmatter
\* in front of what an .md file without frontmatter holds.
C29_SourceOnlyInjected ==
    [][/\ RunStep => (DOMAIN src' = DOMAIN src)
       /\ \A r \in Slots :
            WritesBack(r) =>
              /\ File(r) \in DOMAIN src
              /\ ~startsWith(src[File(r)], Delimiter)
              /\ endsWith(File(r), DotMd)
              /\ src' = writeFile(src, File(r),
                           frontmatterOf(basename(File(r), DotMd))
                             \o src[File(r)])
       /\ (RunStep /\ src' # src) => \E r \in Slots : WritesBack(r)]_vars

----------------------------------------------------------------------------
(* Properties of the .md filter (FilterSpec) *)

\* The file is in both directories or in neither, with the same content.
SameFile(dirA, dirB, f) ==
    /\ f \in DOMAIN dirA <=> f \in DOMAIN dirB
    /\ f \in DOMAIN dirA => dirA[f] = dirB[f]

\* C22: the mirror touches only files whose name ends in .md, in lower case
\* and at the very end: every name a run lists, reads, writes or deletes ends
\* in .md, and no step of a run changes, creates or removes a file with
\* another name in either directory, c.MD, d.mdx and n.txt among them.
C22_OnlyMdTouched ==
    [][/\ \A r \in Slots :
            /\ \A f \in Range(runs'[r].markdownFiles) : endsWith(f, DotMd)
            /\ \A f \in Range(runs'[r].destFiles) : endsWith(f, DotMd)
       /\ \A f \in FilterSrcNames \cup FilterDstNames :
            ~endsWith(f, DotMd) =>
               /\ SameFile(src, src', f)
               /\ SameFile(dst, dst', f)]_vars

\* A run has copied a.md and deleted the stale b.md; c.MD of the vault has
\* no copy, and the content folder keeps n.txt, which the vault does not
\* have, and d.mdx with its old content.
C22_Witness ==
    \E r \in Slots :
        /\ runs[r].pc = "done"
        /\ runs[r].result = "synced"
        /\ DOMAIN src = {A_md, C_MD, D_mdx}
        /\ DOMAIN dst = {A_md, D_mdx, N_txt}
        /\ DOMAIN runs[r].dst0 = {B_md, D_mdx, N_txt}
        /\ dst[D_mdx] = WithFm
        /\ src[D_mdx] = Plain

----------------------------------------------------------------------------
(* Properties of the watcher with its subprocess (WatchedSpec) *)

----------------------------------------------------------------------------
(* Properties of the interval strategy (IntervalSpec) *)

\* The run in slot r ends in this step: syncJournal returns.
RunEnds(r) == Active(r) /\ runs'[r].pc = "done"

\* A run begins in this step.
RunBegins == \E r \in Slots : ~Active(r) /\ runs'[r].pc = "mkdir"

----------------------------------------------------------------------------
(* Properties of the debounce timer (WatcherSpec) *)

\* A listener handles a file event in this step.
HandlesEvent == Len(fsQueue') < Len(fsQueue)

\* A sync run completes in this step.
RunCompletes == wpc = "execSync" /\ wpc' = "idle"

\* C19: at most one debounce timer is armed in every state of the watcher;
\* each add, change or unlink event and each completion of a run cancels the
\* timer armed before and arms one, whose handle syncTimeout holds, for
\* now + 30 minutes.
C19_OneTimerArmed ==
    [][/\ Cardinality(timers) <= 1
       /\ Cardinality(timers') <= 1
       /\ HandlesEvent \/ RunCompletes =>
            /\ timers' = {[id |-> syncTimeout',
                           at |-> now + DEBOUNCE_MINUTES,
                           reason |-> lastReason']}
            /\ timers' \cap timers = {}
            /\ lastReason' = IF RunCompletes THEN "post-sync"
                             ELSE ReasonOf(Head(fsQueue).kind)]_vars

\* A change handled one tick after the start has replaced the start-up
\* timer, which was due 30 minutes after the start, by one due 30 minutes
\* after the change.
C19_Witness ==
    /\ now = TickMinutes
    /\ timers = {[id |-> syncTimeout, at |-> TickMinutes + DEBOUNCE_MINUTES,
                  reason |-> "file changed"]}
    /\ wh.lastEventAt = TickMinutes

\* A due timer's callback runs in this step.
TimerFires ==
    /\ ~HandlesEvent
    /\ ~RunCompletes
    /\ Cardinality(timers') < Cardinality(timers)

\* C26: syncInFlight is false whenever a timer callback or a file-event
\* listener begins, since the thread is blocked for as long as it is true;
\* triggerSync never takes its "Sync already running" branch.
C26_CallbacksFindNoRun ==
    [][/\ HandlesEvent \/ TimerFires => ~syncInFlight /\ wpc = "idle"
       /\ syncInFlight' <=> wpc' = "execSync"
       /\ console' # "skipping"]_vars

\* The listener has handled a file event that the OS reported while a sync
\* was running: by then the run was over.
C26_Witness ==
    /\ wh.lastInFlight
    /\ wh.lastEventAt = now
    /\ ~syncInFlight
    /\ wpc = "idle"
    /\ wh.outcome # "none"

\* A run starts in this step.
RunStarts == ~syncInFlight /\ syncInFlight'

\* C27: once the watcher's SIGINT handler has run, no run starts before the
\* process has exited: the pending debounce timer does not fire between the
\* call of watcher.close() and process.exit(0).
C27_NoRunAfterInterrupt ==
    [][(wstate \in {"closing", "exited"}) => (~RunStarts)]_vars

\* C28: the watcher always has a sync scheduled.  While the process lives
\* and no sync is running a debounce timer is pending; and when no file
\* event has been handled, the first run starts DEBOUNCE_MINUTES after the
\* start of the process, from the startup timer.
C28_AlwaysScheduled ==
    [][/\ (wstate # "exited" /\ ~syncInFlight) => (timers # {})
       /\ (RunStarts /\ wh.runBy = "none" /\ wh.lastEventAt = NoTime)
              => (now = DEBOUNCE_MINUTES /\ wh'.runBy = "startup")
       /\ RunCompletes => (timers' # {} /\ ~syncInFlight')]_vars

C28_Witness ==
    /\ wstate = "running"
    /\ wpc = "idle"
    /\ wh.lastEventAt = NoTime
    /\ wh.runBy = "startup"
    /\ wh.outcome # "none"
    /\ \E t \in timers : t.reason = "post-sync"

----------------------------------------------------------------------------
(* Properties of the now-playing endpoint (NowPlayingSpec) *)

\* The provider reply leaves the field null: 204, not ok, or no track in it.
NoTrackIn(reply) == reply.kind \in {"204", "notok", "notrack"}

\* The request has been dealt with: the handler returned or threw.
NpOver == np.pc \in {"responded", "threw"}

\* The handler threw: a request to the provider failed outright or a reply
\* that was ok had a body that is no JSON.
NpThrew ==
    \/ np.tokenReply \in {"reject", "badjson"}
    \/ Throws(np.nowReply)
    \/ Throws(np.recentReply)

\* C15 as amended: the token request is sent first and the two track requests
\* only after it; without a token no track request is sent; the handler
\* throws exactly when a provider request failed or a body could not be
\* parsed, and every response it returns has status 200; in a response now
\* (last) is null whenever the provider's reply to the current-track
\* (recent-track) request is 204, not ok or without a track.
C15_TokenThenTracks200WhenAnswered ==
    /\ np.sent \in {<<>>, <<"token">>, <<"token", "now", "recent">>}
    /\ np.tokenReply # "token" => Len(np.sent) <= 1
    /\ np.pc = "threw" <=> NpThrew
    /\ np.pc = "responded" => np.response.status = 200
    /\ np.pc = "responded" /\ NoTrackIn(np.nowReply) => np.response.now.isNull
    /\ np.pc = "responded" /\ NoTrackIn(np.recentReply) =>
            np.response.last.isNull

\* A request answered with nothing playing now and a most recent track.
C15_Witness ==
    /\ np.pc = "responded"
    /\ np.sent = <<"token", "now", "recent">>
    /\ np.nowReply.kind = "204"
    /\ np.recentReply.kind = "track"
    /\ np.response.status = 200
    /\ np.response.now.isNull
    /\ np.response.last.artist = <<"A", ",", " ", "B">>

\* C15 as stated: the token request is sent first and the two track requests only
\* after it; without a token no track request is sent; every request is
\* answered with status 200; now (last) is null whenever the provider's reply
\* to the current-track (recent-track) request is 204, not ok or without a
\* track.
C15_TokenThenTracksAlways200 ==
    /\ np.sent \in {<<>>, <<"token">>, <<"token", "now", "recent">>}
    /\ np.tokenReply # "token" => Len(np.sent) <= 1
    /\ NpOver => np.response.status = 200
    /\ NpOver /\ NoTrackIn(np.nowReply) => np.response.now.isNull
    /\ NpOver /\ NoTrackIn(np.recentReply) => np.response.last.isNull

====
